---- MODULE Spec2Model ----
(***************************************************************************)
(* Model of the helmhub-io/charts maintenance tools:                       *)
(*   tools/match_available_image_tags.py   (tag matcher)                   *)
(*   tools/migrate_helmhubio_to_helmhubio.py (migrator)                    *)
(* Python strings are TLA+ strings; a character of s is SubSeq(s, i, i).   *)
(***************************************************************************)
EXTENDS Integers, Sequences, FiniteSets, TLC

VARIABLES
    \* find_best_matching_tag, called on its own
    missing_tag, available_tags, best_match, tagPc,
    \* safe_text_replace, run and run again on one file: the file's path
    \* properties, its first content, and the content after each run
    readme_mode, in_github, text0, textRuns,
    \* a structural rewriter, run and run again on one file: which rewriter,
    \* the file's first content, and the outcome of each run
    docRole, doc0, docRuns,
    \* a run of the migrator's main: the tree below ROOT (path -> node) now
    \* and as the run found it, the command line, the position in main, the
    \* list changed_files, rename_top_folder's result, the renames collected
    \* by rename_all_paths and not yet carried out, its loop variables
    \* (src, dst), its count, and the process's exit status
    fs, fs0, args, pc, changed_files, renamed, renames, cur_rename, renamed_count,
    exit_status,
    \* a run of the tag matcher's main: the report file of missing images,
    \* the charts directory now and as the run found it, the dict
    \* missing_images (in insertion order), the tags of the current image the
    \* inner loop has not reached yet, the registry's responses so far (one
    \* for each image fetched), the counters total_checked and total_fixed,
    \* the "Updated" lines printed, whether the summary is printed, the
    \* position in main and the process's exit status; the locals
    \* missing_tag, available_tags and best_match of main are the variables
    \* of those names above
    missing_file, charts_dir, charts_dir0, missing_images, missing_tags, responses,
    total_checked, total_fixed, updates, summary, matchPc, matchExit

tagVars == <<missing_tag, available_tags, best_match, tagPc>>
textVars == <<readme_mode, in_github, text0, textRuns>>
structVars == <<docRole, doc0, docRuns>>
migVars == <<fs, fs0, args, pc, changed_files, renamed, renames, cur_rename,
             renamed_count, exit_status>>
matchVars == <<missing_file, charts_dir, charts_dir0, missing_images, missing_tags,
               responses, total_checked, total_fixed, updates, summary, matchPc,
               matchExit>>
vars == <<tagVars, textVars, structVars, migVars, matchVars>>

(***************************************************************************)
(* Python str primitives                                                   *)
(***************************************************************************)

\* the value Python's None is modelled by
None == [found |-> FALSE, tag |-> ""]
\* a tag returned by the matcher
Some(t) == [found |-> TRUE, tag |-> t]

(***************************************************************************)
(* Parsed YAML and JSON documents: every node is a record of one shape     *)
(***************************************************************************)

\* a str scalar
Str(s) == [k |-> "str", s |-> s, keys |-> <<>>, items |-> <<>>]
\* a dict: its keys in order, and the value of each
Map(keys, items) == [k |-> "map", s |-> "", keys |-> keys, items |-> items]
\* a list
List(items) == [k |-> "list", s |-> "", keys |-> <<>>, items |-> items]
\* None, also what dict.get gives for a key that is absent
NoneNode == [k |-> "none", s |-> "", keys |-> <<>>, items |-> <<>>]
\* a number
Num == [k |-> "num", s |-> "", keys |-> <<>>, items |-> <<>>]

\* The content of a file, as its readers see it: whether read_text can
\* decode it and the text s it gives; whether load_yaml or json.loads can
\* parse it and the document doc they give; whether the file is as the
\* rewriter's dump wrote it. The text of a file that parses is not kept: only
\* the structural rewriters read such a file.
Utf8(s) == [utf8 |-> TRUE, s |-> s, parses |-> FALSE, doc |-> NoneNode, dumped |-> FALSE]
NotUtf8 == [utf8 |-> FALSE, s |-> "", parses |-> FALSE, doc |-> NoneNode, dumped |-> FALSE]
Parsed(doc) == [utf8 |-> TRUE, s |-> "", parses |-> TRUE, doc |-> doc, dumped |-> FALSE]
Unparsable(raw) == Utf8(raw)

(***************************************************************************)
(* The parts of the state a run does not use stay as they are here         *)
(***************************************************************************)

StructIdle ==
    /\ docRole = "none"
    /\ doc0 = NotUtf8
    /\ docRuns = <<>>

\* a tree with nothing in it, not even the root
NoTree == [p \in {} |-> [kind |-> "dir", c |-> NotUtf8]]
\* no rename
NoRename == <<<<>>, <<>>>>

MigIdle ==
    /\ fs = NoTree
    /\ fs0 = NoTree
    /\ args = [apply |-> FALSE, rename_folders |-> FALSE, rename_all |-> FALSE]
    /\ pc = "idle"
    /\ changed_files = <<>>
    /\ renamed = FALSE
    /\ renames = {}
    /\ cur_rename = NoRename
    /\ renamed_count = 0
    /\ exit_status = -1

\* no charts directory, no report file
NoDir == [exists |-> FALSE, charts |-> [c \in {} |-> 0]]
NoFile == [exists |-> FALSE, lines |-> <<>>]

MatchIdle ==
    /\ missing_file = NoFile
    /\ charts_dir = NoDir
    /\ charts_dir0 = NoDir
    /\ missing_images = <<>>
    /\ missing_tags = {}
    /\ responses = <<>>
    /\ total_checked = 0
    /\ total_fixed = 0
    /\ updates = {}
    /\ summary = FALSE
    /\ matchPc = "idle"
    /\ matchExit = -1

TagIdle ==
    /\ missing_tag = ""
    /\ available_tags = <<>>
    /\ best_match = None
    /\ tagPc = "idle"

TextIdle ==
    /\ readme_mode = FALSE
    /\ in_github = FALSE
    /\ text0 = NotUtf8
    /\ textRuns = <<>>

\* s[i-1] of Python (1-based here)
CharAt(s, i) == SubSeq(s, i, i)

\* s[i-1:] starts with sub
MatchAt(s, sub, i) ==
    /\ i >= 1
    /\ i + Len(sub) - 1 <= Len(s)
    /\ SubSeq(s, i, i + Len(sub) - 1) = sub

\* s.startswith(sub)
StartsWith(s, sub) == MatchAt(s, sub, 1)

\* the least element of a non-empty set of positions
Least(S) == CHOOSE i \in S : \A j \in S : i <= j

\* s.find(sub, i - 1) + 1: the first position from i on where sub occurs; 0
\* when it does not occur
FindFrom(s, sub, i) ==
    LET hits == {j \in i..Len(s) : MatchAt(s, sub, j)}
    IN  IF hits = {} THEN 0 ELSE Least(hits)

\* sub in s
Contains(s, sub) == FindFrom(s, sub, 1) # 0

\* s.split(sep)[0]
SplitFirst(s, sep) ==
    LET p == FindFrom(s, sep, 1)
    IN  IF p = 0 THEN s ELSE SubSeq(s, 1, p - 1)

\* s.split(sep, 1)[1], used only where sep occurs in s
SplitRest(s, sep) ==
    LET p == FindFrom(s, sep, 1)
    IN  SubSeq(s, p + Len(sep), Len(s))

\* s.replace(old, new): leftmost, non-overlapping occurrences of a non-empty old
RECURSIVE ReplaceFrom(_, _, _, _)
ReplaceFrom(s, old, new, i) ==
    LET p == FindFrom(s, old, i)
    IN  IF p = 0 THEN SubSeq(s, i, Len(s))
        ELSE SubSeq(s, i, p - 1) \o new \o ReplaceFrom(s, old, new, p + Len(old))

Replace(s, old, new) == ReplaceFrom(s, old, new, 1)

\* x in lst
InList(x, lst) == \E i \in 1..Len(lst) : lst[i] = x

(***************************************************************************)
(* match_available_image_tags.py: find_best_matching_tag                   *)
(***************************************************************************)

\* '.'.join(missing_version.split('.')[:2])
MajorMinor(missing_version) ==
    LET major == SplitFirst(missing_version, ".")
    IN  IF Len(major) = Len(missing_version) THEN missing_version
        ELSE major \o "." \o
             SplitFirst(SubSeq(missing_version, Len(major) + 2, Len(missing_version)), ".")

\* the candidates list built by the loop of lines 46-49
RECURSIVE Candidates(_, _, _)
Candidates(tags, major_minor, i) ==
    IF i > Len(tags) THEN <<>>
    ELSE IF StartsWith(tags[i], major_minor)
         THEN <<tags[i]>> \o Candidates(tags, major_minor, i + 1)
         ELSE Candidates(tags, major_minor, i + 1)

\* the loop of lines 57-59: the first tag that starts with "<major>."
RECURSIVE FirstMajor(_, _, _)
FirstMajor(tags, major, i) ==
    IF i > Len(tags) THEN None
    ELSE IF StartsWith(tags[i], major \o ".") THEN Some(tags[i])
    ELSE FirstMajor(tags, major, i + 1)

\* candidates[-1] instead of candidates[0]
find_best_matching_tag_lastcand(missing, tags) ==
    LET missing_version == SplitFirst(missing, "-")
        major_minor == MajorMinor(missing_version)
        candidates == Candidates(tags, major_minor, 1)
        major == SplitFirst(missing_version, ".")
    IN  IF InList(missing, tags) THEN Some(missing)
        ELSE IF candidates # <<>> THEN Some(candidates[Len(candidates)])
        ELSE IF FirstMajor(tags, major, 1) # None THEN FirstMajor(tags, major, 1)
        ELSE IF tags # <<>> THEN Some(tags[1])
        ELSE None

find_best_matching_tag(missing, tags) ==
    LET missing_version == SplitFirst(missing, "-")
        major_minor == MajorMinor(missing_version)
        candidates == Candidates(tags, major_minor, 1)
        major == SplitFirst(missing_version, ".")
    IN  IF InList(missing, tags) THEN Some(missing)
        ELSE IF candidates # <<>> THEN Some(candidates[1])
        ELSE IF FirstMajor(tags, major, 1) # None THEN FirstMajor(tags, major, 1)
        ELSE IF tags # <<>> THEN Some(tags[1])
        ELSE None

(***************************************************************************)
(* Inputs of the tag matcher                                               *)
(***************************************************************************)

\* longest list of available tags
MaxAvail == 2

TagMajors == {"1", "12"}
TagRests == {"", ".1", ".2", ".10.0"}
TagSuffixes == {"", "-r1"}

\* version tags: a major, up to two further components, an optional suffix
Tags == {ma \o re \o su : ma \in TagMajors, re \in TagRests, su \in TagSuffixes}

TagLists == UNION {[1..n -> Tags] : n \in 0..MaxAvail}

TagInit ==
    /\ missing_tag \in Tags
    /\ available_tags \in TagLists
    /\ best_match = None
    /\ tagPc = "call"
    /\ TextIdle
    /\ StructIdle
    /\ MigIdle
    /\ MatchIdle

\* one call of find_best_matching_tag(missing_tag, available_tags)
Resolve ==
    /\ tagPc = "call"
    /\ best_match' = find_best_matching_tag(missing_tag, available_tags)
    /\ tagPc' = "returned"
    /\ UNCHANGED <<missing_tag, available_tags, textVars, structVars, migVars, matchVars>>

TagNext == Resolve

SpecTag == TagInit /\ [][TagNext]_vars

(***************************************************************************)
(* C1                                                                      *)
(***************************************************************************)

\* the part of the missing tag before its first '-'
C1_Core == SplitFirst(missing_tag, "-")
\* its first dot-separated component
C1_Major == SplitFirst(C1_Core, ".")
\* positions of the available tags that start with 'major.minor'
C1_MinorPos == {i \in 1..Len(available_tags) :
                  StartsWith(available_tags[i], MajorMinor(C1_Core))}
\* positions of the available tags that start with 'major.'
C1_MajorPos == {i \in 1..Len(available_tags) :
                  StartsWith(available_tags[i], C1_Major \o ".")}

\* C1: find_best_matching_tag returns the result of the first rule that
\* succeeds in the order exact > same-minor > same-major > latest-fallback >
\* none: the missing tag if it is in the list, else the first tag in list
\* order starting with 'major.minor', else the first tag starting with
\* 'major.', else the first tag of a non-empty list, else none.
C1_RuleOrder ==
    tagPc = "returned" =>
        best_match =
            IF \E i \in 1..Len(available_tags) : available_tags[i] = missing_tag
                THEN Some(missing_tag)
            ELSE IF C1_MinorPos # {} THEN Some(available_tags[Least(C1_MinorPos)])
            ELSE IF C1_MajorPos # {} THEN Some(available_tags[Least(C1_MajorPos)])
            ELSE IF Len(available_tags) > 0 THEN Some(available_tags[1])
            ELSE None

\* a same-minor match that is not the first tag of the list, with a
\* same-major tag ahead of it
C1_Witness ==
    /\ tagPc = "returned"
    /\ ~InList(missing_tag, available_tags)
    /\ Len(available_tags) = 2
    /\ C1_MinorPos = {2}
    /\ 1 \in C1_MajorPos
    /\ best_match = Some(available_tags[2])

(***************************************************************************)
(* Python re primitives, for the patterns the migrator uses                *)
(***************************************************************************)

LowerChars == {"a", "b", "c", "d", "e", "f", "g", "h", "i", "j", "k", "l", "m",
               "n", "o", "p", "q", "r", "s", "t", "u", "v", "w", "x", "y", "z"}
UpperChars == {"A", "B", "C", "D", "E", "F", "G", "H", "I", "J", "K", "L", "M",
               "N", "O", "P", "Q", "R", "S", "T", "U", "V", "W", "X", "Y", "Z"}
DigitChars == {"0", "1", "2", "3", "4", "5", "6", "7", "8", "9"}

\* \w
WordChars == LowerChars \cup UpperChars \cup DigitChars \cup {"_"}
\* [a-z0-9_.-]
RepoCharsLower == LowerChars \cup DigitChars \cup {"_", ".", "-"}
\* [A-Za-z0-9_.-]
RepoCharsAny == RepoCharsLower \cup UpperChars

IsWordAt(s, i) == i >= 1 /\ i <= Len(s) /\ CharAt(s, i) \in WordChars

\* \b between positions i-1 and i
BoundaryAt(s, i) == IsWordAt(s, i - 1) # IsWordAt(s, i)

\* the end of the longest run of characters of class cls that starts at i
\* (i - 1 when the character at i is not of the class)
RunEnd(s, cls, i) ==
    Least({j \in i..(Len(s) + 1) : j = Len(s) + 1 \/ CharAt(s, j) \notin cls}) - 1

\* re.sub(r"/(tree|blob)/(main|master)/bitnami/", r"/\1/\2/helmhubio/", s)
TreePathAlternatives ==
    {<<"/" \o t \o "/" \o m \o "/bitnami/", "/" \o t \o "/" \o m \o "/helmhubio/">> :
        t \in {"tree", "blob"}, m \in {"main", "master"}}

RECURSIVE SubTreePathFrom(_, _)
SubTreePathFrom(s, i) ==
    LET hits == {j \in i..Len(s) : \E a \in TreePathAlternatives : MatchAt(s, a[1], j)}
    IN  IF hits = {} THEN SubSeq(s, i, Len(s))
        ELSE LET p == Least(hits)
                 a == CHOOSE b \in TreePathAlternatives : MatchAt(s, b[1], p)
             IN  SubSeq(s, i, p - 1) \o a[2] \o SubTreePathFrom(s, p + Len(a[1]))

SubTreePath(s) == SubTreePathFrom(s, 1)

\* re.sub(r"\bBitnami\b", "HelmHubIO", s)
RECURSIVE SubBrandFrom(_, _)
SubBrandFrom(s, i) ==
    LET hits == {j \in i..Len(s) : /\ BoundaryAt(s, j)
                                   /\ MatchAt(s, "Bitnami", j)
                                   /\ BoundaryAt(s, j + 7)}
    IN  IF hits = {} THEN SubSeq(s, i, Len(s))
        ELSE LET p == Least(hits)
             IN  SubSeq(s, i, p - 1) \o "HelmHubIO" \o SubBrandFrom(s, p + 7)

SubBrand(s) == SubBrandFrom(s, 1)

\* re.sub(r"\bbitnami/(<cls>+)", new_ns + r"/\1", s): the group is greedy and
\* nothing follows it, so it takes the whole run
RECURSIVE SubNamespaceFrom(_, _, _, _)
SubNamespaceFrom(s, cls, new_ns, i) ==
    LET hits == {j \in i..Len(s) : /\ BoundaryAt(s, j)
                                   /\ MatchAt(s, "bitnami/", j)
                                   /\ RunEnd(s, cls, j + 8) >= j + 8}
    IN  IF hits = {} THEN SubSeq(s, i, Len(s))
        ELSE LET p == Least(hits)
                 e == RunEnd(s, cls, p + 8)
             IN  SubSeq(s, i, p - 1) \o new_ns \o "/" \o SubSeq(s, p + 8, e)
                   \o SubNamespaceFrom(s, cls, new_ns, e + 1)

SubNamespace(s, cls, new_ns) == SubNamespaceFrom(s, cls, new_ns, 1)

(***************************************************************************)
(* migrate_helmhubio_to_helmhubio.py: the text rewriter                    *)
(***************************************************************************)

\* SAFE_TEXT_PATTERNS, applied in declaration order
ApplySafeTextPatterns(text) ==
    LET t1 == Replace(text, "oci://registry-1.docker.io/bitnamicharts",
                            "oci://registry-1.docker.io/helmhubiocharts")
        t2 == Replace(t1, "docker.io/bitnami/", "docker.io/helmhubio/")
        t3 == Replace(t2, "docker.io/bitnamilegacy/", "docker.io/helmhubio/")
        t4 == Replace(t3, "github.com/bitnami/charts", "github.com/helmhub-io/charts")
    IN  SubTreePath(t4)

\* the text safe_text_replace computes for a file it could read
SafeText(text, readme, github) ==
    LET t1 == ApplySafeTextPatterns(text)
        t2 == IF readme THEN SubNamespace(SubBrand(t1), RepoCharsLower, "helmhubio")
              ELSE t1
    IN  IF github THEN SubNamespace(t2, RepoCharsAny, "helmhub-io") ELSE t2

\* safe_text_replace(path, readme_mode): the file's content after the call,
\* and the value returned
safe_text_replace(content, readme, github) ==
    IF ~content.utf8 THEN [content |-> content, changed |-> FALSE]
    ELSE LET text == SafeText(content.s, readme, github)
         IN  [content |-> [content EXCEPT !.s = text], changed |-> text # content.s]

(***************************************************************************)
(* Inputs of the text rewriter                                             *)
(***************************************************************************)

\* most fragments a text is put together from
MaxFrags == 3

TextFrags == {"docker.io/", "bitnami/", "bitnamilegacy/", "github.com/", "charts",
              "/tree/main/", "/blob/master/", "/opt/", "app", "Bitnami", " ",
              "oci://registry-1.docker.io/bitnamicharts", "helmhubio/", "X"}

RECURSIVE Concat(_)
Concat(parts) == IF parts = <<>> THEN "" ELSE Head(parts) \o Concat(Tail(parts))

Texts == {Concat(parts) : parts \in UNION {[1..n -> TextFrags] : n \in 0..MaxFrags}}

TextInit ==
    /\ readme_mode \in BOOLEAN
    /\ in_github \in BOOLEAN
    /\ text0 \in {Utf8(t) : t \in Texts} \cup {NotUtf8}
    /\ textRuns = <<>>
    /\ TagIdle
    /\ StructIdle
    /\ MigIdle
    /\ MatchIdle

\* the content the next run of the rewriter reads
TextNow == IF textRuns = <<>> THEN text0 ELSE textRuns[Len(textRuns)].content

\* one run of safe_text_replace on the file; the file is run at most twice
RunTextRewriter ==
    /\ Len(textRuns) < 2
    /\ textRuns' = Append(textRuns, safe_text_replace(TextNow, readme_mode, in_github))
    /\ UNCHANGED <<readme_mode, in_github, text0, tagVars, structVars, migVars, matchVars>>

TextNext == RunTextRewriter

SpecText == TextInit /\ [][TextNext]_vars

(***************************************************************************)
(* C3, C5                                                                  *)
(***************************************************************************)

\* number of occurrences of sub in s
CountFrom(s, sub, i) == Cardinality({j \in i..Len(s) : MatchAt(s, sub, j)})

InContainerPath == "/opt/bitnami/app"

\* C3: a string containing the in-container path /opt/bitnami/app is never
\* altered in that path by the rewriter, whatever the file's role: after a
\* run the text holds the path as often as before.
C3_PathKept ==
    (Len(textRuns) >= 1 /\ text0.utf8) =>
        CountFrom(textRuns[1].content.s, InContainerPath, 1)
            = CountFrom(text0.s, InContainerPath, 1)

\* C5: the text pass is idempotent: a second run of safe_text_replace on the
\* text the first run produced changes nothing.
C5_TextIdempotent ==
    Len(textRuns) = 2 =>
        /\ textRuns[2].changed = FALSE
        /\ textRuns[2].content = textRuns[1].content

(***************************************************************************)
(* Python dict and list primitives on document nodes                       *)
(***************************************************************************)

IsStr(n) == n.k = "str"
IsDict(n) == n.k = "map"
IsList(n) == n.k = "list"

\* key in d
HasKey(d, key) == IsDict(d) /\ \E i \in 1..Len(d.keys) : d.keys[i] = key

KeyIndex(d, key) == CHOOSE i \in 1..Len(d.keys) : d.keys[i] = key

\* d.get(key)
Get(d, key) == IF HasKey(d, key) THEN d.items[KeyIndex(d, key)] ELSE NoneNode

\* d[key] = v
Put(d, key, v) ==
    IF HasKey(d, key) THEN [d EXCEPT !.items[KeyIndex(d, key)] = v]
    ELSE [d EXCEPT !.keys = Append(@, key), !.items = Append(@, v)]

\* bool(n)
Truthy(n) ==
    CASE n.k = "str" -> n.s # ""
      [] n.k \in {"map", "list"} -> n.items # <<>>
      [] n.k = "none" -> FALSE
      [] OTHER -> TRUE

(***************************************************************************)
(* migrate_helmhubio_to_helmhubio.py: update_chart_yaml                    *)
(***************************************************************************)

\* lines 93-94 and 104-105: the two replacements of an image reference
ChartImageRef(item) ==
    Replace(Replace(item, "docker.io/helmhubio/", "docker.io/helmhubio/"),
            "docker.io/helmhubiolegacy/", "docker.io/helmhubio/")

\* lines 115-118
ChartDependencyRepo(repo) ==
    Replace(repo, "oci://registry-1.docker.io/helmhubiocharts",
                  "oci://registry-1.docker.io/helmhubiocharts")

\* lines 126-131
ChartHome(home) ==
    LET h1 == IF Contains(home, "bitnami") THEN "https://github.com/helmhub-io/charts"
              ELSE home
        h2 == Replace(h1, "github.com/helmhub-io/charts", "github.com/helmhub-io/charts")
    IN  SubTreePath(h2)

\* lines 140-141
ChartSource(src) ==
    SubTreePath(Replace(src, "github.com/helmhub-io/charts", "github.com/helmhub-io/charts"))

\* line 154
ChartMaintainerUrl(url) ==
    Replace(url, "github.com/helmhub-io/charts", "github.com/helmhub-io/charts")

\* line 164
ChartTag(t) == Replace(t, "bitnami", "helmhubio")

\* lines 87-109: annotations.images
ChartImagesStep(data) ==
    LET annotations == IF Truthy(Get(data, "annotations")) THEN Get(data, "annotations")
                       ELSE Map(<<>>, <<>>)
        images == Get(annotations, "images")
        new_list == List([i \in 1..Len(images.items) |->
                            IF IsStr(images.items[i])
                            THEN Str(ChartImageRef(images.items[i].s))
                            ELSE images.items[i]])
        new_str == Str(ChartImageRef(images.s))
        new_images == IF IsList(images) THEN new_list
                      ELSE IF IsStr(images) THEN new_str ELSE images
    IN  [doc |-> IF new_images # images
                 THEN Put(data, "annotations", Put(annotations, "images", new_images))
                 ELSE data,
         changed |-> new_images # images]

\* lines 112-121: dependencies[*].repository
ChartDependency(dep) ==
    IF IsDict(dep) /\ IsStr(Get(dep, "repository"))
    THEN IF ChartDependencyRepo(Get(dep, "repository").s) # Get(dep, "repository").s
         THEN Put(dep, "repository", Str(ChartDependencyRepo(Get(dep, "repository").s)))
         ELSE dep
    ELSE dep

ChartDependenciesStep(data) ==
    LET deps == Get(data, "dependencies")
        new_deps == List([i \in 1..Len(deps.items) |-> ChartDependency(deps.items[i])])
    IN  IF IsList(deps) /\ new_deps # deps
        THEN [doc |-> Put(data, "dependencies", new_deps), changed |-> TRUE]
        ELSE [doc |-> data, changed |-> FALSE]

\* lines 124-134: home
ChartHomeStep(data) ==
    LET home == Get(data, "home")
    IN  IF IsStr(home) /\ ChartHome(home.s) # home.s
        THEN [doc |-> Put(data, "home", Str(ChartHome(home.s))), changed |-> TRUE]
        ELSE [doc |-> data, changed |-> FALSE]

\* lines 136-147: sources; the list is assigned back whether or not an item
\* changed
ChartSourcesStep(data) ==
    LET sources == Get(data, "sources")
        new_sources == List([i \in 1..Len(sources.items) |->
                               IF IsStr(sources.items[i])
                               THEN Str(ChartSource(sources.items[i].s))
                               ELSE sources.items[i]])
    IN  IF IsList(sources)
        THEN [doc |-> Put(data, "sources", new_sources), changed |-> new_sources # sources]
        ELSE [doc |-> data, changed |-> FALSE]

\* lines 160-170: tags; the list is assigned back whether or not an item
\* changed
ChartTagsStep(data) ==
    LET tags == Get(data, "tags")
        new_tags == List([i \in 1..Len(tags.items) |->
                            IF IsStr(tags.items[i])
                            THEN Str(ChartTag(tags.items[i].s))
                            ELSE tags.items[i]])
    IN  IF IsList(tags)
        THEN [doc |-> Put(data, "tags", new_tags), changed |-> new_tags # tags]
        ELSE [doc |-> data, changed |-> FALSE]

\* lines 150-157: maintainers[*].url
ChartMaintainer(m) ==
    IF IsDict(m) /\ IsStr(Get(m, "url"))
    THEN IF ChartMaintainerUrl(Get(m, "url").s) # Get(m, "url").s
         THEN Put(m, "url", Str(ChartMaintainerUrl(Get(m, "url").s)))
         ELSE m
    ELSE m

ChartMaintainersStep(data) ==
    LET ms == Get(data, "maintainers")
        new_ms == List([i \in 1..Len(ms.items) |-> ChartMaintainer(ms.items[i])])
    IN  IF IsList(ms) /\ new_ms # ms
        THEN [doc |-> Put(data, "maintainers", new_ms), changed |-> TRUE]
        ELSE [doc |-> data, changed |-> FALSE]

\* annotations.get on a str, list or number (line 88), or iterating a number
\* (line 112), raises and nothing catches it
ChartRaises(data) ==
    \/ Truthy(Get(data, "annotations")) /\ ~IsDict(Get(data, "annotations"))
    \/ Get(data, "dependencies").k = "num"

\* lines 84-171 on a document that is a dict: the rewritten document and
\* the changed flag
ChartDoc(data) ==
    LET r1 == ChartImagesStep(data)
        r2 == ChartDependenciesStep(r1.doc)
        r3 == ChartHomeStep(r2.doc)
        r4 == ChartSourcesStep(r3.doc)
        r5 == ChartMaintainersStep(r4.doc)
        r6 == ChartTagsStep(r5.doc)
    IN  [doc |-> r6.doc,
         changed |-> r1.changed \/ r2.changed \/ r3.changed
                        \/ r4.changed \/ r5.changed \/ r6.changed]

\* What a structural rewriter leaves behind: the file's content, the value
\* returned, whether the file was written, whether an exception escaped
Outcome(content, changed, wrote, raised) ==
    [content |-> content, changed |-> changed, wrote |-> wrote, raised |-> raised]

\* the file as dump_yaml or json.dumps writes the document
Dump(content, doc) == [content EXCEPT !.doc = doc, !.dumped = TRUE]

update_chart_yaml(content) ==
    IF ~content.parses \/ ~IsDict(content.doc)
    THEN Outcome(content, FALSE, FALSE, FALSE)
    ELSE IF ChartRaises(content.doc) THEN Outcome(content, FALSE, FALSE, TRUE)
    ELSE IF ChartDoc(content.doc).changed
         THEN Outcome(Dump(content, ChartDoc(content.doc).doc), TRUE, TRUE, FALSE)
         ELSE Outcome(content, FALSE, FALSE, FALSE)

(***************************************************************************)
(* migrate_helmhubio_to_helmhubio.py: update_values_yaml                   *)
(***************************************************************************)

\* lines 193-204: the branch taken for a repository string; "" when none is
ValuesRepoBranch(repo) ==
    IF StartsWith(repo, "bitnami/") THEN "bitnami"
    ELSE IF StartsWith(repo, "bitnamilegacy/") THEN "bitnamilegacy"
    ELSE IF StartsWith(repo, "docker.io/helmhubio/") THEN "registry"
    ELSE IF StartsWith(repo, "docker.io/helmhubiolegacy/") THEN "registrylegacy"
    ELSE ""

\* every "bitnami" of the string replaced, not the leading segment alone
ValuesRepo_everywhere(repo) == Replace(repo, "bitnami", "helmhubio")

\* the value the taken branch assigns to img["repository"]
ValuesRepo(repo) ==
    CASE ValuesRepoBranch(repo) \in {"bitnami", "bitnamilegacy"} ->
            "helmhubio/" \o SplitRest(repo, "/")
      [] ValuesRepoBranch(repo) = "registry" ->
            Replace(repo, "docker.io/helmhubio/", "docker.io/helmhubio/")
      [] ValuesRepoBranch(repo) = "registrylegacy" ->
            Replace(repo, "docker.io/helmhubiolegacy/", "docker.io/helmhubio/")
      [] OTHER -> repo

\* lines 188-204: obj has an image dict with a str repository that takes a branch
ValuesImageHit(obj) ==
    /\ HasKey(obj, "image")
    /\ IsDict(Get(obj, "image"))
    /\ IsStr(Get(Get(obj, "image"), "repository"))
    /\ ValuesRepoBranch(Get(Get(obj, "image"), "repository").s) # ""

ValuesImage(obj) ==
    IF ValuesImageHit(obj)
    THEN Put(obj, "image",
             Put(Get(obj, "image"), "repository",
                 Str(ValuesRepo(Get(Get(obj, "image"), "repository").s))))
    ELSE obj

\* visit (lines 184-211): the node returned
RECURSIVE ValuesVisit(_)
ValuesVisit(obj) ==
    IF IsDict(obj)
    THEN Map(obj.keys, [i \in 1..Len(obj.items) |-> ValuesVisit(ValuesImage(obj).items[i])])
    ELSE IF IsList(obj) THEN List([i \in 1..Len(obj.items) |-> ValuesVisit(obj.items[i])])
    ELSE obj

\* visit (lines 184-211): whether it sets the nonlocal changed
RECURSIVE ValuesVisitChanged(_)
ValuesVisitChanged(obj) ==
    IF IsDict(obj)
    THEN \/ ValuesImageHit(obj)
         \/ \E i \in 1..Len(obj.items) : ValuesVisitChanged(ValuesImage(obj).items[i])
    ELSE IF IsList(obj) THEN \E i \in 1..Len(obj.items) : ValuesVisitChanged(obj.items[i])
    ELSE FALSE

update_values_yaml(content) ==
    IF ~content.parses THEN Outcome(content, FALSE, FALSE, FALSE)
    ELSE IF ValuesVisitChanged(content.doc)
         THEN Outcome(Dump(content, ValuesVisit(content.doc)), TRUE, TRUE, FALSE)
         ELSE Outcome(content, FALSE, FALSE, FALSE)

(***************************************************************************)
(* migrate_helmhubio_to_helmhubio.py: update_values_schema_json            *)
(***************************************************************************)

\* lines 233-239
SchemaString(v) ==
    LET n1 == IF StartsWith(v, "bitnami/") THEN "helmhubio/" \o SplitRest(v, "/") ELSE v
        n2 == IF StartsWith(n1, "bitnamilegacy/") THEN "helmhubio/" \o SplitRest(n1, "/")
              ELSE n1
        n3 == Replace(n2, "docker.io/helmhubio/", "docker.io/helmhubio/")
    IN  Replace(n3, "docker.io/helmhubiolegacy/", "docker.io/helmhubio/")

\* visit (lines 227-248): str values of a dict are rewritten, the other
\* values and the items of a list are visited
RECURSIVE SchemaVisit(_)
SchemaVisit(obj) ==
    IF IsDict(obj)
    THEN Map(obj.keys, [i \in 1..Len(obj.items) |->
                          IF IsStr(obj.items[i]) THEN Str(SchemaString(obj.items[i].s))
                          ELSE SchemaVisit(obj.items[i])])
    ELSE IF IsList(obj) THEN List([i \in 1..Len(obj.items) |-> SchemaVisit(obj.items[i])])
    ELSE obj

update_values_schema_json(content) ==
    IF ~content.parses THEN Outcome(content, FALSE, FALSE, FALSE)
    ELSE IF SchemaVisit(content.doc) # content.doc
         THEN Outcome(Dump(content, SchemaVisit(content.doc)), TRUE, TRUE, FALSE)
         ELSE Outcome(content, FALSE, FALSE, FALSE)

(***************************************************************************)
(* Inputs of the structural rewriters                                      *)
(***************************************************************************)

\* deepest nesting of an image entry below the root of a values document
MaxDepth == 2

\* a key left out of a document under construction
Absent == [k |-> "absent", s |-> "", keys |-> <<>>, items |-> <<>>]

\* the dict of the pairs <<key, value>> whose value is not Absent
DictOf(pairs) ==
    LET kept == SelectSeq(pairs, LAMBDA pr : pr[2] # Absent)
    IN  Map([i \in 1..Len(kept) |-> kept[i][1]], [i \in 1..Len(kept) |-> kept[i][2]])

RepoStrings == {"bitnami/nginx", "bitnamilegacy/nginx", "docker.io/helmhubio/nginx",
                "docker.io/helmhubiolegacy/nginx", "docker.io/bitnami/nginx",
                "helmhubio/nginx", "myorg/bitnami/nginx", "/opt/bitnami/app",
                "bitnami/bitnami/x"}

\* image: {registry, repository, tag}
ImageEntry(repo) ==
    Map(<<"registry", "repository", "tag">>, <<Str("docker.io"), repo, Str("1.2.3")>>)

ValuesShapes == 1..7

ValuesShape(n, r1, r2) ==
    CASE n = 1 -> Map(<<"image">>, <<ImageEntry(Str(r1))>>)
      [] n = 2 -> Map(<<"image", "metrics">>,
                      <<ImageEntry(Str(r1)), Map(<<"image">>, <<ImageEntry(Str(r2))>>)>>)
      [] n = 3 -> Map(<<"image">>, <<Str(r1)>>)
      [] n = 4 -> Map(<<"image">>, <<ImageEntry(Num)>>)
      [] n = 5 -> Map(<<"image">>, <<Put(ImageEntry(Str(r1)), "image", ImageEntry(Str(r2)))>>)
      [] n = 6 -> Map(<<"repository">>, <<Str(r1)>>)
      [] OTHER -> Str(r1)

\* the node below a dict key or in a list, once for each entry of wraps
RECURSIVE Wrap(_, _)
Wrap(node, wraps) ==
    IF wraps = <<>> THEN node
    ELSE IF Head(wraps) = "map" THEN Map(<<"sub">>, <<Wrap(node, Tail(wraps))>>)
    ELSE List(<<Str("x"), Wrap(node, Tail(wraps))>>)

Wraps == UNION {[1..n -> {"map", "list"}] : n \in 0..MaxDepth}

ValuesDocs ==
    {Wrap(ValuesShape(n, r1, r2), w) :
        n \in ValuesShapes, r1 \in RepoStrings, r2 \in RepoStrings, w \in Wraps}

ImageRefs == {"docker.io/helmhubio/nginx:1.0", "docker.io/helmhubiolegacy/nginx:1.0",
              "docker.io/bitnami/nginx:1.0"}

ChartAnnotations ==
    {Absent, Str("x"), Map(<<"category">>, <<Str("Infrastructure")>>)}
      \cup {Map(<<"images">>, <<List(<<Str(a), Num>>)>>) : a \in ImageRefs}
      \cup {Map(<<"images">>, <<Str(a)>>) : a \in ImageRefs}

ChartDependencies ==
    {Absent, Num,
     List(<<Map(<<"repository">>, <<Str("oci://registry-1.docker.io/bitnamicharts")>>)>>),
     List(<<Map(<<"repository">>, <<Str("oci://registry-1.docker.io/helmhubiocharts")>>),
            Str("x")>>)}

ChartHomes ==
    {Absent, Num, Str("https://bitnami.com"), Str("https://helmhub.io"),
     Str("https://github.com/helmhub-io/charts/tree/main/bitnami/nginx")}

ChartSources ==
    {Absent,
     List(<<Str("https://github.com/bitnami/charts/tree/main/bitnami/nginx"), Num>>),
     List(<<Str("https://github.com/helmhub-io/charts")>>)}

ChartMaintainers ==
    {Absent, List(<<Str("x")>>),
     List(<<Map(<<"url">>, <<Str("https://github.com/bitnami/charts")>>)>>)}

ChartTags ==
    {Absent, List(<<Str("web")>>), List(<<Str("bitnami-common")>>),
     List(<<Str("/opt/bitnami/app"), Num>>)}

ChartDocs ==
    {DictOf(<< <<"annotations", a>>, <<"dependencies", d>>, <<"home", h>>,
               <<"sources", so>>, <<"maintainers", m>>, <<"tags", t>> >>) :
        a \in ChartAnnotations, d \in ChartDependencies, h \in ChartHomes,
        so \in ChartSources, m \in ChartMaintainers, t \in ChartTags}
      \cup {List(<<Str("x")>>)}

SchemaShapes == 1..3

SchemaShape(n, r1, r2) ==
    CASE n = 1 -> Map(<<"properties">>, <<Map(<<"image">>,
                      <<Map(<<"default", "type">>, <<Str(r1), Str("string")>>)>>)>>)
      [] n = 2 -> Map(<<"default", "examples">>,
                      <<Str(r1), List(<<Str(r2), Map(<<"default">>, <<Str(r2)>>)>>)>>)
      [] OTHER -> List(<<Str(r1), Num>>)

SchemaDocs ==
    {SchemaShape(n, r1, r2) : n \in SchemaShapes, r1 \in RepoStrings, r2 \in RepoStrings}

\* a structured file that does not parse: text with a legacy reference in it
BrokenTexts == {"image: [docker.io/bitnami/nginx", "{\"default\": \"docker.io/bitnami/"}

DocsOf(role) ==
    {Unparsable(raw) : raw \in BrokenTexts} \cup
    {Parsed(d) : d \in (CASE role = "chart" -> ChartDocs
                          [] role = "values" -> ValuesDocs
                          [] OTHER -> SchemaDocs)}

StructInit ==
    /\ docRole \in {"chart", "values", "schema"}
    /\ doc0 \in DocsOf(docRole)
    /\ docRuns = <<>>
    /\ TagIdle
    /\ TextIdle
    /\ MigIdle
    /\ MatchIdle

\* the content the next run of the rewriter loads
DocNow == IF docRuns = <<>> THEN doc0 ELSE docRuns[Len(docRuns)].content

\* the rewriter of a role
StructRewrite(role, content) ==
    CASE role = "chart" -> update_chart_yaml(content)
      [] role = "values" -> update_values_yaml(content)
      [] OTHER -> update_values_schema_json(content)

\* one run of the role's rewriter on the file; the file is run at most
\* twice, and not again after a run that raised
RunStructRewriter ==
    /\ Len(docRuns) < 2
    /\ IF docRuns = <<>> THEN TRUE ELSE ~docRuns[Len(docRuns)].raised
    /\ docRuns' = Append(docRuns, StructRewrite(docRole, DocNow))
    /\ UNCHANGED <<docRole, doc0, tagVars, textVars, migVars, matchVars>>

StructNext == RunStructRewriter

SpecStruct == StructInit /\ [][StructNext]_vars

(***************************************************************************)
(* C4                                                                      *)
(***************************************************************************)

\* C4: the structural rewriters are idempotent: the second application of a
\* role's rewriter, to the output of the first, reports changed == false and
\* writes nothing.
C4_StructIdempotent ==
    Len(docRuns) = 2 => (~docRuns[2].changed /\ ~docRuns[2].wrote)

(***************************************************************************)
(* The tree below ROOT: a path is the sequence of its components below     *)
(* ROOT (ROOT itself is <<>>), a node a directory or a file with content   *)
(***************************************************************************)

DirNode == [kind |-> "dir", c |-> NotUtf8]
FileNode(c) == [kind |-> "file", c |-> c]

\* str(ROOT)
RootStr == "/repo"

\* str(path)
RECURSIVE PathStr(_)
PathStr(p) == IF p = <<>> THEN RootStr
              ELSE PathStr(SubSeq(p, 1, Len(p) - 1)) \o "/" \o p[Len(p)]

IsPrefix(p, q) == Len(p) <= Len(q) /\ SubSeq(q, 1, Len(p)) = p
\* path.parent and path.name
Parent(p) == SubSeq(p, 1, Len(p) - 1)
Name(p) == p[Len(p)]
\* path.exists(), path.is_file(), path.is_dir()
Exists(f, p) == p \in DOMAIN f
IsFileAt(f, p) == Exists(f, p) /\ f[p].kind = "file"
IsDirAt(f, p) == Exists(f, p) /\ f[p].kind = "dir"
\* the entries of directory p
Entries(f, p) == {q \in DOMAIN f : Len(q) = Len(p) + 1 /\ IsPrefix(p, q)}
\* any(part in names for part in rpath.parts)
HasPartIn(p, names) == \E i \in 1..Len(p) : p[i] \in names

\* a set as a sequence, in an order of the file system's choosing
RECURSIVE SeqOfSet(_)
SeqOfSet(S) == IF S = {} THEN <<>>
               ELSE LET x == CHOOSE y \in S : TRUE IN <<x>> \o SeqOfSet(S \ {x})

\* the tree with everything at and below src moved to dst
Moved(f, src, dst) ==
    LET kept == {q \in DOMAIN f : ~IsPrefix(src, q) /\ ~IsPrefix(dst, q)}
        moved == {dst \o SubSeq(q, Len(src) + 1, Len(q)) : q \in {r \in DOMAIN f : IsPrefix(src, r)}}
    IN  [q \in kept \cup moved |->
            IF IsPrefix(dst, q) THEN f[src \o SubSeq(q, Len(dst) + 1, Len(q))] ELSE f[q]]

\* os.rename(src, dst) on POSIX raises when src is missing, when dst is a
\* directory that is not empty, and when one of src and dst is a directory
\* and the other a file; it replaces a file by a file and an empty
\* directory by a directory
RenameRaises(f, src, dst) ==
    \/ ~Exists(f, src)
    \/ ~IsDirAt(f, Parent(dst))
    \/ /\ Exists(f, dst)
       /\ \/ f[src].kind # f[dst].kind
          \/ f[dst].kind = "dir" /\ Entries(f, dst) # {}

os_rename(f, src, dst) ==
    IF RenameRaises(f, src, dst) THEN [fs |-> f, raised |-> TRUE]
    ELSE [fs |-> Moved(f, src, dst), raised |-> FALSE]

\* dst.parent.mkdir(parents=True, exist_ok=True): raises when a component
\* of the path is a file
MkdirRaises(f, p) == \E i \in 0..Len(p) : IsFileAt(f, SubSeq(p, 1, i))

mkdir_parents(f, p) ==
    [q \in DOMAIN f \cup {SubSeq(p, 1, i) : i \in 0..Len(p)} |->
        IF q \in DOMAIN f THEN f[q] ELSE DirNode]

(***************************************************************************)
(* migrate_helmhubio_to_helmhubio.py: main, pass 1 (lines 341-354)         *)
(***************************************************************************)

\* line 342
TopLevels(f) == SelectSeq(<<<<"bitnami">>, <<"helmhubio">>>>, LAMBDA d : Exists(f, d))

\* tl.glob("*/<name>")
Glob(f, tl, name) ==
    SeqOfSet({e \o <<name>> : e \in {d \in Entries(f, tl) : Exists(f, d \o <<name>>)}})

StructuredRoles ==
    <<[name |-> "Chart.yaml", role |-> "chart"],
      [name |-> "values.yaml", role |-> "values"],
      [name |-> "values.schema.json", role |-> "schema"]>>

\* the files of pass 1 in the order the loops of lines 345-354 reach them
RECURSIVE StructTargetsOf(_, _, _)
StructTargetsOf(f, tls, r) ==
    IF tls = <<>> THEN <<>>
    ELSE IF r > Len(StructuredRoles) THEN StructTargetsOf(f, Tail(tls), 1)
    ELSE LET files == Glob(f, Head(tls), StructuredRoles[r].name)
         IN  [i \in 1..Len(files) |-> [path |-> files[i], role |-> StructuredRoles[r].role]]
               \o StructTargetsOf(f, tls, r + 1)

StructTargets(f) == StructTargetsOf(f, TopLevels(f), 1)

\* lines 347-354: the tree and changed_files after a rewriter left outcome
\* o for the file at path
AfterRewrite(st, path, o) ==
    [fs |-> [st.fs EXCEPT ![path].c = o.content],
     changed_files |-> IF o.changed THEN Append(st.changed_files, path)
                       ELSE st.changed_files,
     raised |-> o.raised]

\* pass 1 from target i on: an exception of a rewriter ends the run
RECURSIVE StructFrom(_, _, _)
StructFrom(st, targets, i) ==
    IF i > Len(targets) \/ st.raised THEN st
    ELSE StructFrom(AfterRewrite(st, targets[i].path,
                                 StructRewrite(targets[i].role, st.fs[targets[i].path].c)),
                    targets, i + 1)

(***************************************************************************)
(* migrate_helmhubio_to_helmhubio.py: main, pass 2 (lines 356-372)         *)
(***************************************************************************)

UpperSeq == <<"A", "B", "C", "D", "E", "F", "G", "H", "I", "J", "K", "L", "M",
              "N", "O", "P", "Q", "R", "S", "T", "U", "V", "W", "X", "Y", "Z">>
LowerSeq == <<"a", "b", "c", "d", "e", "f", "g", "h", "i", "j", "k", "l", "m",
              "n", "o", "p", "q", "r", "s", "t", "u", "v", "w", "x", "y", "z">>

\* str.lower()
RECURSIVE Lower(_)
Lower(s) ==
    IF s = "" THEN ""
    ELSE LET c == CharAt(s, 1)
         IN  (IF c \in UpperChars
              THEN LowerSeq[CHOOSE i \in 1..26 : UpperSeq[i] = c] ELSE c)
               \o Lower(SubSeq(s, 2, Len(s)))

\* PurePath.suffix of a name
Suffix(name) ==
    LET dots == {i \in 1..Len(name) : CharAt(name, i) = "."}
        last == CHOOSE i \in dots : \A j \in dots : j <= i
    IN  IF dots = {} THEN ""
        ELSE IF 1 < last /\ last < Len(name) THEN SubSeq(name, last, Len(name))
        ELSE ""

TextSuffixes == {".md", ".tpl", ".txt", ".yaml", ".yml", ".json", ".conf", ""}
StructuredNames == {"Chart.yaml", "values.yaml", "values.schema.json"}

\* the files pass 2 hands to safe_text_replace, without the names pass 2 skips
TextTargets_noskip(f) ==
    {p \in DOMAIN f :
        /\ f[p].kind = "file"
        /\ ~HasPartIn(Parent(p), {".git", ".venv"})
        /\ Lower(Suffix(Name(p))) \in TextSuffixes}

\* the files pass 2 hands to safe_text_replace
TextTargets(f) ==
    {p \in DOMAIN f :
        /\ f[p].kind = "file"
        /\ ~HasPartIn(Parent(p), {".git", ".venv"})
        /\ Lower(Suffix(Name(p))) \in TextSuffixes
        /\ Name(p) \notin StructuredNames}

\* safe_text_replace(path, readme_mode) as pass 2 calls it
TextRewrite(f, p) ==
    safe_text_replace(f[p].c, Lower(Suffix(Name(p))) = ".md",
                      Contains(PathStr(p), ".github"))

\* pass 2 from target i on
RECURSIVE TextFrom(_, _, _)
TextFrom(st, targets, i) ==
    IF i > Len(targets) THEN st
    ELSE TextFrom(AfterRewrite(st, targets[i],
                               Outcome(TextRewrite(st.fs, targets[i]).content,
                                       TextRewrite(st.fs, targets[i]).changed,
                                       FALSE, FALSE)),
                  targets, i + 1)

(***************************************************************************)
(* migrate_helmhubio_to_helmhubio.py: rename_top_folder, rename_all_paths  *)
(***************************************************************************)

\* rename_top_folder(apply): the tree after it and the value returned
rename_top_folder(f, apply) ==
    IF ~Exists(f, <<"bitnami">>) \/ Exists(f, <<"helmhubio">>)
    THEN [fs |-> f, result |-> FALSE]
    ELSE [fs |-> IF apply THEN Moved(f, <<"bitnami">>, <<"helmhubio">>) ELSE f,
          result |-> TRUE]

\* lines 301-313: the renames collected by the walk, as pairs <<src, dst>>
CollectedRenames(f) ==
    {<<e, Parent(e) \o <<Replace(Name(e), "bitnami", "helmhubio")>> >> :
        e \in {q \in DOMAIN f :
                 /\ Len(q) >= 1
                 /\ IsDirAt(f, Parent(q))
                 /\ ~HasPartIn(Parent(q), {".git", ".venv", ".github"})
                 /\ Contains(Name(q), "bitnami")}}

\* line 315: r may be the next rename of the sorted list: no collected
\* rename is longer, and of those as long none was walked before it (the
\* walk is bottom-up: a directory's entries come after those of the
\* directories below it)
MayBeNext(rs, r) ==
    \A o \in rs :
        /\ Len(PathStr(o[1])) <= Len(PathStr(r[1]))
        /\ Len(PathStr(o[1])) = Len(PathStr(r[1])) =>
              ~(Parent(o[1]) # Parent(r[1]) /\ IsPrefix(Parent(r[1]), Parent(o[1])))

(***************************************************************************)
(* Inputs of the migrator: the trees it is run on                          *)
(***************************************************************************)

\* one chart directory below bitnami/ with any of these files, in any of
\* these contents ("" for a file that is absent)
TreeChartYamls ==
    {NotUtf8,
     Parsed(DictOf(<< <<"tags", List(<<Str("bitnami-common")>>)>> >>)),
     Parsed(DictOf(<< <<"annotations", Str("x")>> >>)),
     Unparsable("home: [https://github.com/bitnami/charts")}

TreeValuesYamls ==
    {NotUtf8,
     Parsed(ValuesShape(1, "bitnami/nginx", "")),
     Unparsable("image: {repository: docker.io/bitnami/nginx")}

TreeReadmes == {NotUtf8, Utf8("docker.io/bitnami/nginx")}
TreeConfs == {NotUtf8, Utf8("/opt/bitnami/app")}

\* the files at paths, each with its content; a file whose content is
\* NotUtf8 is left out
FilesOf(pairs) ==
    LET kept == {i \in 1..Len(pairs) : pairs[i][2] # NotUtf8}
    IN  [q \in {pairs[i][1] : i \in kept} |->
            FileNode(pairs[CHOOSE i \in kept : pairs[i][1] = q][2])]

DirsOf(paths) == [q \in paths |-> DirNode]

\* bitnami/: absent, empty, or with the chart nginx
BitnamiTrees ==
    {NoTree, DirsOf({<<"bitnami">>})} \cup
    {DirsOf({<<"bitnami">>, <<"bitnami", "nginx">>}) @@
     FilesOf(<< <<<<"bitnami", "nginx", "Chart.yaml">>, c>>,
                <<<<"bitnami", "nginx", "values.yaml">>, v>>,
                <<<<"bitnami", "nginx", "README.md">>, r>>,
                <<<<"bitnami", "nginx", "bitnami.conf">>, k>> >>) :
        c \in TreeChartYamls, v \in TreeValuesYamls, r \in TreeReadmes, k \in TreeConfs}

\* helmhubio/: absent, empty, or with a directory in it
HelmhubioTrees ==
    {NoTree, DirsOf({<<"helmhubio">>}), DirsOf({<<"helmhubio">>, <<"helmhubio", "nginx">>})}

\* files of the root whose names differ by the brand only
RootFileTrees ==
    {FilesOf(<< <<<<"bitnami.txt">>, a>>, <<<<"helmhubio.txt">>, b>> >>) :
        a \in {NotUtf8, Utf8("old")}, b \in {NotUtf8, Utf8("new")}}

\* .github/ with a workflow, .git/ with a ref
ControlTrees ==
    {g @@ v :
       g \in {NoTree, DirsOf({<<".github">>}) @@
                      FilesOf(<< <<<<".github", "bitnami.yml">>, Utf8("uses: bitnami/x")>> >>)},
       v \in {NoTree, DirsOf({<<".git">>}) @@
                      FilesOf(<< <<<<".git", "bitnami">>, Utf8("docker.io/bitnami/nginx")>> >>)}}

\* the trees below a ROOT that exists, and the tree of a ROOT that does not
Trees ==
    {DirsOf({<<>>}) @@ b @@ h @@ r @@ c :
        b \in BitnamiTrees, h \in HelmhubioTrees, r \in RootFileTrees, c \in ControlTrees}
      \cup {NoTree}

MigInit ==
    /\ fs \in Trees
    /\ fs0 = fs
    /\ args \in [apply : BOOLEAN, rename_folders : BOOLEAN, rename_all : BOOLEAN]
    /\ pc = "pass1"
    /\ changed_files = <<>>
    /\ renamed = FALSE
    /\ renames = {}
    /\ cur_rename = NoRename
    /\ renamed_count = 0
    /\ exit_status = -1
    /\ TagIdle
    /\ TextIdle
    /\ StructIdle
    /\ MatchIdle

(***************************************************************************)
(* migrate_helmhubio_to_helmhubio.py: main                                 *)
(***************************************************************************)

\* an exception nothing catches: the traceback, exit status 1
Crash ==
    /\ pc' = "crashed"
    /\ exit_status' = 1

\* lines 341-354: the YAML-aware updates
StructPass ==
    /\ pc = "pass1"
    /\ \E st \in {StructFrom([fs |-> fs, changed_files |-> changed_files, raised |-> FALSE],
                              StructTargets(fs), 1)} :
           /\ fs' = st.fs
           /\ changed_files' = st.changed_files
           /\ IF st.raised THEN Crash ELSE pc' = "pass2" /\ UNCHANGED exit_status
    /\ UNCHANGED <<fs0, args, renamed, renames, cur_rename, renamed_count>>
    /\ UNCHANGED <<tagVars, textVars, structVars, matchVars>>

\* lines 356-372: the text replacement across the tree
TextPass ==
    /\ pc = "pass2"
    /\ \E st \in {TextFrom([fs |-> fs, changed_files |-> changed_files, raised |-> FALSE],
                             SeqOfSet(TextTargets(fs)), 1)} :
           /\ fs' = st.fs
           /\ changed_files' = st.changed_files
    /\ pc' = "rename_top"
    /\ UNCHANGED <<fs0, args, renamed, renames, cur_rename, renamed_count, exit_status>>
    /\ UNCHANGED <<tagVars, textVars, structVars, matchVars>>

\* lines 374-377
RenameTopFolder ==
    /\ pc = "rename_top"
    /\ IF args.rename_folders
       THEN /\ fs' = rename_top_folder(fs, args.apply).fs
            /\ renamed' = rename_top_folder(fs, args.apply).result
       ELSE UNCHANGED <<fs, renamed>>
    /\ pc' = "rename_all"
    /\ UNCHANGED <<fs0, args, changed_files, renames, cur_rename, renamed_count, exit_status>>
    /\ UNCHANGED <<tagVars, textVars, structVars, matchVars>>

\* lines 378-381 and 301-315: the walk of rename_all_paths and its sort
CollectRenames ==
    /\ pc = "rename_all"
    /\ IF args.rename_all
       THEN renames' = CollectedRenames(fs) /\ pc' = "renaming"
       ELSE UNCHANGED renames /\ pc' = "report"
    /\ UNCHANGED <<fs, fs0, args, changed_files, renamed, cur_rename, renamed_count,
                   exit_status>>
    /\ UNCHANGED <<tagVars, textVars, structVars, matchVars>>

\* lines 317-321: one turn of the loop over the sorted renames
RenameOne ==
    /\ pc = "renaming"
    /\ \E r \in renames :
        /\ MayBeNext(renames, r)
        /\ cur_rename' = r
        /\ renames' = renames \ {r}
        /\ IF ~args.apply
           THEN /\ renamed_count' = renamed_count + 1
                /\ UNCHANGED <<fs, pc, exit_status>>
           ELSE IF MkdirRaises(fs, Parent(r[2]))
                   \/ os_rename(mkdir_parents(fs, Parent(r[2])), r[1], r[2]).raised
           THEN /\ Crash
                /\ UNCHANGED <<fs, renamed_count>>
           ELSE /\ fs' = os_rename(mkdir_parents(fs, Parent(r[2])), r[1], r[2]).fs
                /\ renamed_count' = renamed_count + 1
                /\ UNCHANGED <<pc, exit_status>>
    /\ UNCHANGED <<fs0, args, changed_files, renamed>>
    /\ UNCHANGED <<tagVars, textVars, structVars, matchVars>>

\* line 322: the loop is over
RenamesDone ==
    /\ pc = "renaming"
    /\ renames = {}
    /\ pc' = "report"
    /\ UNCHANGED <<fs, fs0, args, changed_files, renamed, renames, cur_rename,
                   renamed_count, exit_status>>
    /\ UNCHANGED <<tagVars, textVars, structVars, matchVars>>

\* lines 383-395: the report; sys.exit(0) in a dry run, the end of main
\* otherwise
Report ==
    /\ pc = "report"
    /\ pc' = "done"
    /\ exit_status' = 0
    /\ UNCHANGED <<fs, fs0, args, changed_files, renamed, renames, cur_rename,
                   renamed_count>>
    /\ UNCHANGED <<tagVars, textVars, structVars, matchVars>>

MigNext ==
    \/ StructPass
    \/ TextPass
    \/ RenameTopFolder
    \/ CollectRenames
    \/ RenameOne
    \/ RenamesDone
    \/ Report

SpecMigrate == MigInit /\ [][MigNext]_vars

(***************************************************************************)
(* C2, C7, C8, C9                                                          *)
(***************************************************************************)

\* C2: a run without --apply writes no file's content and renames no path:
\* after the run the tree is what it was before.
C2_DryRunWritesNothing ==
    (pc = "done" /\ ~args.apply) => fs = fs0

\* C7: a ROOT that does not exist is fatal before any mutation: the run ends
\* with a non-zero exit status and nothing written or renamed.
C7_MissingRootIsFatal ==
    (pc \in {"done", "crashed"} /\ ~Exists(fs0, <<>>)) =>
        (exit_status # 0 /\ fs = fs0)

\* everything at and below p
Subtree(f, p) == [q \in {r \in DOMAIN f : IsPrefix(p, r)} |-> f[q]]

\* C8: a rename whose destination exists is skipped: the destination is not
\* overwritten, the source keeps its name, and the run goes on to the
\* remaining renames (rename_top_folder and rename_all_paths alike).
C8_ConflictSkipped ==
    [][/\ (pc = "rename_top" /\ args.rename_folders /\ args.apply
              /\ Exists(fs, <<"bitnami">>) /\ Exists(fs, <<"helmhubio">>))
          => (fs' = fs /\ pc' = "rename_all")
       /\ (pc = "renaming" /\ args.apply /\ cur_rename' # cur_rename
              /\ Exists(fs, cur_rename'[2]))
          => /\ Subtree(fs', cur_rename'[2]) = Subtree(fs, cur_rename'[2])
             /\ Exists(fs', cur_rename'[1])
             /\ pc' = "renaming"]_vars

\* the structured files of f that do not parse
UnparsedStructured(f) ==
    {p \in DOMAIN f : /\ f[p].kind = "file"
                      /\ Name(p) \in StructuredNames
                      /\ f[p].c.utf8 /\ ~f[p].c.parses}

\* the files of the tree that now carry the name the file at p had
NowNamed(p) == {q \in DOMAIN fs : fs[q].kind = "file" /\ Name(q) = Name(p)}

\* the structured files pass 1 reaches whose rewriter reports a change
ChangingStructured(f) ==
    {StructTargets(f)[i].path : i \in
        {j \in 1..Len(StructTargets(f)) :
            StructRewrite(StructTargets(f)[j].role, f[StructTargets(f)[j].path].c).changed}}

InReport(p) == \E i \in 1..Len(changed_files) : changed_files[i] = p

\* C9: a structured file that does not parse keeps its content through the
\* whole run (wherever a rename takes it), is not in the change report, and
\* does not end the run: the structured files that parse and change are
\* still rewritten and reported.
C9_ParseFailureSkipped ==
    \A p \in UnparsedStructured(fs0) :
        /\ NowNamed(p) # {}
        /\ \A q \in NowNamed(p) : fs[q].c = fs0[p].c
        /\ ~InReport(p)
        /\ pc \notin {"pass1", "crashed"} =>
              \A t \in ChangingStructured(fs0) : InReport(t)

\* a finished run on a tree with a Chart.yaml that does not parse and a
\* values.yaml that was rewritten
C9_Witness ==
    /\ pc = "done"
    /\ <<"bitnami", "nginx", "Chart.yaml">> \in UnparsedStructured(fs0)
    /\ InReport(<<"bitnami", "nginx", "values.yaml">>)
    /\ args.apply /\ args.rename_all


(***************************************************************************)
(* match_available_image_tags.py: get_available_tags_from_dockerhub        *)
(***************************************************************************)

\* What requests.get and response.json() give for one image: error is the
\* exception the request raised ("" for none), status the status code, json
\* whether the body is JSON of the shape lines 23-24 read, names the names
\* of its results
Response(error, status, json, names) ==
    [error |-> error, status |-> status, json |-> json, names |-> names]

\* the status check of line 22 left out
get_available_tags_from_dockerhub_nostatus(resp) ==
    IF resp.error # "" THEN <<>>
    ELSE IF resp.json THEN resp.names ELSE <<>>

get_available_tags_from_dockerhub(resp) ==
    IF resp.error # "" THEN <<>>
    ELSE IF resp.status = 200
         THEN IF resp.json THEN resp.names ELSE <<>>
         ELSE <<>>

(***************************************************************************)
(* match_available_image_tags.py: main, the report of missing images       *)
(* (lines 138-149)                                                         *)
(***************************************************************************)

RepoPrefix == "docker.io/helmhubio/"

\* where r'docker\.io/helmhubio/([^:]+):([^,]+)' matches in line: the prefix,
\* one character or more up to the first colon, and a character after the
\* colon that is no comma
MatchStarts(line) ==
    {k \in 1..Len(line) :
        /\ MatchAt(line, RepoPrefix, k)
        /\ FindFrom(line, ":", k + Len(RepoPrefix)) > k + Len(RepoPrefix)
        /\ FindFrom(line, ":", k + Len(RepoPrefix)) < Len(line)
        /\ CharAt(line, FindFrom(line, ":", k + Len(RepoPrefix)) + 1) # ","}

\* the groups of the match that starts at k
GroupsAt(line, k, colon, comma) ==
    [image |-> SubSeq(line, k + Len(RepoPrefix), colon - 1),
     tag |-> SubSeq(line, colon + 1, IF comma = 0 THEN Len(line) ELSE comma - 1)]

\* re.search(...): group(1) and group(2) of the leftmost match
Groups(line) ==
    GroupsAt(line, Least(MatchStarts(line)),
             FindFrom(line, ":", Least(MatchStarts(line)) + Len(RepoPrefix)),
             FindFrom(line, ",", FindFrom(line, ":", Least(MatchStarts(line))
                                                      + Len(RepoPrefix)) + 1))

\* lines 147-149 on the dict, kept as its items in insertion order
AddMissing(images, m) ==
    IF \E i \in 1..Len(images) : images[i].image = m.image
    THEN [i \in 1..Len(images) |->
            IF images[i].image = m.image
            THEN [images[i] EXCEPT !.tags = @ \cup {m.tag}] ELSE images[i]]
    ELSE Append(images, [image |-> m.image, tags |-> {m.tag}])

\* lines 141-149 from line i of the report on
RECURSIVE ParseMissing(_, _, _)
ParseMissing(lines, i, images) ==
    IF i > Len(lines) THEN images
    ELSE IF Contains(lines[i], "404") /\ MatchStarts(lines[i]) # {}
         THEN ParseMissing(lines, i + 1, AddMissing(images, Groups(lines[i])))
         ELSE ParseMissing(lines, i + 1, images)

(***************************************************************************)
(* match_available_image_tags.py: update_chart_image_tag                   *)
(***************************************************************************)

\* a file that is not there
NoText == [exists |-> FALSE, s |-> ""]
\* Chart.yaml with this content; values.yaml with these lines (readlines)
TextFile(s) == [exists |-> TRUE, s |-> s]
LinesFile(lines) == [exists |-> TRUE, lines |-> lines]

\* line 113: "if found_repo and i > 5"
ResetAfter == 5

\* lines 96-116 from the line of index i on: new_lines, and how many times
\* line 108 appended "values.yaml"
RECURSIVE ScanLines(_, _, _, _, _, _, _, _)
ScanLines(lines, i, found_repo, new_lines, hits, image_name, old_tag, new_tag) ==
    IF i >= Len(lines) THEN [new_lines |-> new_lines, hits |-> hits]
    ELSE IF Contains(lines[i + 1], "repository: helmhubio/" \o image_name)
    THEN ScanLines(lines, i + 1, TRUE, Append(new_lines, lines[i + 1]), hits,
                   image_name, old_tag, new_tag)
    ELSE IF found_repo /\ Contains(lines[i + 1], "tag:") /\ Contains(lines[i + 1], old_tag)
    THEN ScanLines(lines, i + 1, FALSE,
                   Append(new_lines, Replace(lines[i + 1], old_tag, new_tag)), hits + 1,
                   image_name, old_tag, new_tag)
    ELSE ScanLines(lines, i + 1, found_repo /\ ~(i > ResetAfter),
                   Append(new_lines, lines[i + 1]), hits,
                   image_name, old_tag, new_tag)

\* lines 77-78
ImageRef(image_name, tag) == RepoPrefix \o image_name \o ":" \o tag

\* lines 72-84: Chart.yaml after them
TagInChartYaml(f, image_name, old_tag, new_tag) ==
    IF f.exists /\ Contains(f.s, ImageRef(image_name, old_tag))
    THEN TextFile(Replace(f.s, ImageRef(image_name, old_tag), ImageRef(image_name, new_tag)))
    ELSE f

\* lines 87-120: values.yaml after them, given the result of the scan
TagInValuesYaml(f, scan) ==
    IF f.exists /\ scan.hits > 0 THEN LinesFile(scan.new_lines) ELSE f

\* the chart after the call, and the list returned
UpdatedChart(chart, image_name, old_tag, new_tag, scan) ==
    [chart |-> [chart_yaml |-> TagInChartYaml(chart.chart_yaml, image_name, old_tag, new_tag),
                values_yaml |-> TagInValuesYaml(chart.values_yaml, scan)],
     updated_files |->
        (IF chart.chart_yaml.exists
            /\ Contains(chart.chart_yaml.s, ImageRef(image_name, old_tag))
         THEN <<"Chart.yaml">> ELSE <<>>)
        \o (IF chart.values_yaml.exists
            THEN [n \in 1..scan.hits |-> "values.yaml"] ELSE <<>>)]

update_chart_image_tag(chart, image_name, old_tag, new_tag) ==
    UpdatedChart(chart, image_name, old_tag, new_tag,
                 ScanLines(chart.values_yaml.lines, 0, FALSE, <<>>, 0,
                           image_name, old_tag, new_tag))

(***************************************************************************)
(* match_available_image_tags.py: main, one missing tag (lines 186-202)    *)
(***************************************************************************)

\* line 197, on the lines of values.yaml
InContent(lines, sub) == \E i \in 1..Len(lines) : Contains(lines[i], sub)

\* lines 188-197: the chart is one the loop updates
UsesImage(charts, c, image_name, tag) ==
    /\ c # "common"
    /\ charts[c].values_yaml.exists
    /\ InContent(charts[c].values_yaml.lines, "helmhubio/" \o image_name)
    /\ InContent(charts[c].values_yaml.lines, tag)

\* the charts after the loop of line 187
ChartsAfter(charts, image_name, old_tag, new_tag) ==
    [c \in DOMAIN charts |->
        IF UsesImage(charts, c, image_name, old_tag)
        THEN update_chart_image_tag(charts[c], image_name, old_tag, new_tag).chart
        ELSE charts[c]]

\* the "Updated" lines the loop prints (line 201)
UpdatesOf(charts, image_name, old_tag, new_tag) ==
    {[image |-> image_name, tag |-> old_tag, chart |-> c,
      files |-> update_chart_image_tag(charts[c], image_name, old_tag, new_tag).updated_files] :
        c \in {d \in DOMAIN charts :
                 /\ UsesImage(charts, d, image_name, old_tag)
                 /\ update_chart_image_tag(charts[d], image_name, old_tag,
                                           new_tag).updated_files # <<>>}}

(***************************************************************************)
(* Inputs of the tag matcher's main                                        *)
(***************************************************************************)

MaxReport == 2
MaxPreamble == 3
MaxGap == 1

ReportLines ==
    {"docker.io/helmhubio/nginx:1.1,404\n",
     "docker.io/helmhubio/redis:1.1,404\n",
     "docker.io/helmhubio/nginx:2.0,404\n",
     "docker.io/helmhubio/redis:2.0,200\n"}

\* the report file: absent, or up to MaxReport lines, no two the same
Reports ==
    {NoFile} \cup
    {LinesFile(ls) : ls \in
        {l \in UNION {[1..n -> ReportLines] : n \in 0..MaxReport} :
            \A i, j \in 1..Len(l) : l[i] = l[j] => i = j}}

\* an image section of values.yaml: gap lines lie between repository and tag
ImageSection(image_name, gap, tag) ==
    <<"image:\n", "  registry: docker.io\n", "  repository: helmhubio/" \o image_name \o "\n">>
      \o [n \in 1..gap |-> "  pullPolicy: Always\n"]
      \o <<"  tag: " \o tag \o "\n">>

\* values.yaml: the section of nginx, at the top of the file or below
\* MaxPreamble other lines, and perhaps a section of redis or of
\* nginx-exporter
ValuesFiles ==
    {LinesFile([n \in 1..p |-> "replicaCount: 1\n"] \o ImageSection("nginx", g, "1.1") \o more) :
        p \in {0, MaxPreamble}, g \in 0..MaxGap,
        more \in {<<>>, ImageSection("redis", 0, "1.1"),
                  ImageSection("nginx-exporter", 0, "1.1")}}

ChartYamlFiles == {NoText, TextFile("images: docker.io/helmhubio/nginx:1.1\n")}

NoCharts == [c \in {} |-> 0]

\* the charts directory: absent, or with the chart nginx, the chart common,
\* both or none
ChartsDirs ==
    {NoDir} \cup
    {[exists |-> TRUE, charts |-> n @@ c] :
        n \in {NoCharts} \cup
              {"nginx" :> [chart_yaml |-> y, values_yaml |-> v] :
                  y \in ChartYamlFiles, v \in ValuesFiles \cup {NoFile}},
        c \in {NoCharts,
               "common" :> [chart_yaml |-> NoText,
                            values_yaml |-> LinesFile(ImageSection("nginx", 0, "1.1"))]}}

\* what the registry may answer: a page of results, a transport error or
\* timeout, a status that is not 200 (whatever the body), a body that is not
\* the JSON expected
Responses ==
    {Response("", 200, TRUE, ts) : ts \in {<<>>, <<"1.1">>, <<"1.2">>, <<"2.1", "1.2">>}}
      \cup {Response("timeout", 0, FALSE, <<>>), Response("", 404, TRUE, <<>>),
            Response("", 500, TRUE, <<"1.2">>), Response("", 200, FALSE, <<>>)}

MatchInit ==
    /\ missing_file \in Reports
    /\ charts_dir \in ChartsDirs
    /\ charts_dir0 = charts_dir
    /\ missing_images = <<>>
    /\ missing_tags = {}
    /\ responses = <<>>
    /\ total_checked = 0
    /\ total_fixed = 0
    /\ updates = {}
    /\ summary = FALSE
    /\ matchPc = "load"
    /\ matchExit = -1
    /\ missing_tag = ""
    /\ available_tags = <<>>
    /\ best_match = None
    /\ tagPc = "idle"
    /\ TextIdle
    /\ StructIdle
    /\ MigIdle

(***************************************************************************)
(* match_available_image_tags.py: main                                     *)
(***************************************************************************)

\* lines 130-151: sys.exit(1) without the report, the dict of it otherwise
LoadMissing ==
    /\ matchPc = "load"
    /\ IF ~missing_file.exists
       THEN /\ matchPc' = "exited"
            /\ matchExit' = 1
            /\ UNCHANGED missing_images
       ELSE /\ missing_images' = ParseMissing(missing_file.lines, 1, <<>>)
            /\ matchPc' = "images"
            /\ UNCHANGED matchExit
    /\ UNCHANGED <<missing_file, charts_dir, charts_dir0, missing_tags, responses,
                   total_checked, total_fixed, updates, summary>>
    /\ UNCHANGED <<tagVars, textVars, structVars, migVars>>

\* lines 165-177: the next image, and the tags the registry has of it
NextImage ==
    /\ matchPc = "images"
    /\ total_checked < Len(missing_images)
    /\ total_checked' = total_checked + 1
    /\ \E resp \in Responses :
        /\ responses' = Append(responses, resp)
        /\ available_tags' = get_available_tags_from_dockerhub(resp)
    /\ IF available_tags' = <<>>
       THEN UNCHANGED <<matchPc, missing_tags>>
       ELSE /\ matchPc' = "tags"
            /\ missing_tags' = missing_images[total_checked'].tags
    /\ UNCHANGED <<missing_file, charts_dir, charts_dir0, missing_images, total_fixed,
                   updates, summary, matchExit>>
    /\ UNCHANGED <<missing_tag, best_match, tagPc, textVars, structVars, migVars>>

\* lines 180-206: one missing tag of the image, in the order the set gives;
\* iterdir() raises when the charts directory is not there
ResolveTag ==
    /\ matchPc = "tags"
    /\ \E t \in missing_tags :
        /\ missing_tag' = t
        /\ missing_tags' = missing_tags \ {t}
        /\ best_match' = find_best_matching_tag(t, available_tags)
    /\ IF ~(best_match'.found /\ best_match'.tag # missing_tag')
       THEN UNCHANGED <<charts_dir, total_fixed, updates, matchPc, matchExit>>
       ELSE IF ~charts_dir.exists
       THEN /\ matchPc' = "crashed"
            /\ matchExit' = 1
            /\ UNCHANGED <<charts_dir, total_fixed, updates>>
       ELSE /\ charts_dir' =
                 [charts_dir EXCEPT !.charts =
                     ChartsAfter(@, missing_images[total_checked].image, missing_tag',
                                 best_match'.tag)]
            /\ updates' = updates \cup
                 UpdatesOf(charts_dir.charts, missing_images[total_checked].image,
                           missing_tag', best_match'.tag)
            /\ total_fixed' = total_fixed +
                 Cardinality(UpdatesOf(charts_dir.charts,
                                       missing_images[total_checked].image,
                                       missing_tag', best_match'.tag))
            /\ UNCHANGED <<matchPc, matchExit>>
    /\ UNCHANGED <<missing_file, charts_dir0, missing_images, responses, total_checked,
                   summary>>
    /\ UNCHANGED <<available_tags, tagPc, textVars, structVars, migVars>>

\* line 208: the tags of the image are through
TagsDone ==
    /\ matchPc = "tags"
    /\ missing_tags = {}
    /\ matchPc' = "images"
    /\ UNCHANGED <<missing_file, charts_dir, charts_dir0, missing_images, missing_tags,
                   responses, total_checked, total_fixed, updates, summary, matchExit>>
    /\ UNCHANGED <<tagVars, textVars, structVars, migVars>>

\* lines 210-230: the summary, and the end of main
Summary ==
    /\ matchPc = "images"
    /\ total_checked = Len(missing_images)
    /\ summary' = TRUE
    /\ matchPc' = "done"
    /\ matchExit' = 0
    /\ UNCHANGED <<missing_file, charts_dir, charts_dir0, missing_images, missing_tags,
                   responses, total_checked, total_fixed, updates>>
    /\ UNCHANGED <<tagVars, textVars, structVars, migVars>>

MatchNext ==
    \/ LoadMissing
    \/ NextImage
    \/ ResolveTag
    \/ TagsDone
    \/ Summary

SpecMatch == MatchInit /\ [][MatchNext]_vars

(***************************************************************************)
(* C6, C10                                                                 *)
(***************************************************************************)

\* a line of values.yaml without its indentation and its line end
Trimmed(line) ==
    LET inked == {i \in 1..Len(line) : CharAt(line, i) \notin {" ", "\n"}}
    IN  IF inked = {} THEN ""
        ELSE SubSeq(line, Least(inked), CHOOSE i \in inked : \A j \in inked : j <= i)

\* the tag lines of the entries of lines whose repository is the image and
\* whose tag is the tag given: a tag field that follows the repository field
\* with no other repository or tag field between the two
EntryTagLines(lines, image_name, tag) ==
    {j \in 1..Len(lines) :
        /\ Trimmed(lines[j]) = "tag: " \o tag
        /\ \E i \in 1..(j - 1) :
            /\ Trimmed(lines[i]) = "repository: helmhubio/" \o image_name
            /\ \A k \in (i + 1)..(j - 1) :
                 /\ ~StartsWith(Trimmed(lines[k]), "repository:")
                 /\ ~StartsWith(Trimmed(lines[k]), "tag:")}

\* C6: when the matcher yields a substitute other than the missing tag for an
\* (image, missing tag) pair, every values.yaml entry of that image with that
\* tag carries the substitute afterwards, whatever lies between its
\* repository and tag fields, and a Chart.yaml that embeds the image:tag pair
\* carries the substitute too.
C6_EntriesUpdated ==
    [][(/\ matchPc = "tags"
        /\ missing_tags' # missing_tags
        /\ best_match'.found
        /\ best_match'.tag # missing_tag'
        /\ matchPc' # "crashed")
       => \A c \in DOMAIN charts_dir.charts :
            /\ \A j \in EntryTagLines(charts_dir.charts[c].values_yaml.lines,
                                      missing_images[total_checked].image, missing_tag') :
                 Trimmed(charts_dir'.charts[c].values_yaml.lines[j])
                    = "tag: " \o best_match'.tag
            /\ (/\ charts_dir.charts[c].chart_yaml.exists
                /\ Contains(charts_dir.charts[c].chart_yaml.s,
                            ImageRef(missing_images[total_checked].image, missing_tag')))
               => charts_dir'.charts[c].chart_yaml.s
                    = Replace(charts_dir.charts[c].chart_yaml.s,
                              ImageRef(missing_images[total_checked].image, missing_tag'),
                              ImageRef(missing_images[total_checked].image,
                                       best_match'.tag))]_vars

\* the fetch failed: the request raised, the status is not 200, or the body
\* is not the JSON expected
FetchFailed(resp) == resp.error # "" \/ resp.status # 200 \/ ~resp.json

\* C10: a fetch failure for an image leaves that image with an empty tag
\* list and does not end the run: nothing is updated on behalf of the image
\* (no descriptor at all when every fetch failed), the run does not stop at
\* that image, and a run that ends has fetched every image of the report
\* and printed the summary.
C10_FetchFailureSkipped ==
    /\ \A i \in 1..Len(responses) :
         FetchFailed(responses[i]) =>
            /\ \A u \in updates : u.image # missing_images[i].image
            /\ i = total_checked =>
                  /\ available_tags = <<>>
                  /\ matchPc \in {"images", "done"}
    /\ (\A i \in 1..Len(responses) : FetchFailed(responses[i])) => charts_dir = charts_dir0
    /\ matchPc = "done" =>
          /\ summary
          /\ total_checked = Len(missing_images)
          /\ Len(responses) = Len(missing_images)

\* a finished run of two images: the fetch of the first failed, and a chart
\* was updated for the second
C10_Witness ==
    /\ matchPc = "done"
    /\ Len(missing_images) = 2
    /\ FetchFailed(responses[1])
    /\ ~FetchFailed(responses[2])
    /\ \E u \in updates : u.image = missing_images[2].image
    /\ summary

(***************************************************************************)
(* C11                                                                     *)
(***************************************************************************)

\* the paths from a node to the str scalars below it: a path is the
\* sequence of the positions taken in the dicts and lists on the way
RECURSIVE StrPaths(_)
StrPaths(node) ==
    IF IsStr(node) THEN {<<>>}
    ELSE UNION {{<<i>> \o q : q \in StrPaths(node.items[i])} : i \in 1..Len(node.items)}

RECURSIVE NodeAt(_, _)
NodeAt(node, path) ==
    IF path = <<>> THEN node ELSE NodeAt(node.items[Head(path)], Tail(path))

\* the path leads to the repository field of the image dict of a dict
IsImageRepository(doc, path) ==
    /\ Len(path) >= 2
    /\ IsDict(NodeAt(doc, SubSeq(path, 1, Len(path) - 2)))
    /\ NodeAt(doc, SubSeq(path, 1, Len(path) - 2)).keys[path[Len(path) - 1]] = "image"
    /\ IsDict(NodeAt(doc, SubSeq(path, 1, Len(path) - 1)))
    /\ NodeAt(doc, SubSeq(path, 1, Len(path) - 1)).keys[path[Len(path)]] = "repository"

LegacyNamespaces == {"bitnami", "bitnamilegacy"}

\* the string starts with a legacy namespace and a "/"
StartsLegacy(s) == \E ns \in LegacyNamespaces : StartsWith(s, ns \o "/")

\* what follows the first "/" of a string that has one
AfterFirstSlash(s) == SubSeq(s, FindFrom(s, "/", 1) + 1, Len(s))

\* C11: update_values_yaml rewrites an image repository that starts with a
\* legacy namespace to "helmhubio/" and what followed the first "/", kept
\* as it was, at any depth of dicts and lists; a string in which the legacy
\* namespace occurs only after the start, and a string that is no image
\* repository, stay as they are, and the document keeps its shape.
C11_NamespaceOnly ==
    (docRole = "values" /\ doc0.parses /\ Len(docRuns) >= 1) =>
        /\ StrPaths(docRuns[1].content.doc) = StrPaths(doc0.doc)
        /\ \A p \in StrPaths(doc0.doc) :
             IF IsImageRepository(doc0.doc, p) /\ StartsLegacy(NodeAt(doc0.doc, p).s)
             THEN NodeAt(docRuns[1].content.doc, p).s
                     = "helmhubio/" \o AfterFirstSlash(NodeAt(doc0.doc, p).s)
             ELSE (~IsImageRepository(doc0.doc, p)
                      \/ Contains(NodeAt(doc0.doc, p).s, "bitnami"))
                  => NodeAt(docRuns[1].content.doc, p) = NodeAt(doc0.doc, p)

\* a run on a document whose image dict lies below a list and a dict: the
\* repository "bitnami/bitnami/x" is now "helmhubio/bitnami/x", and the
\* repository "myorg/bitnami/nginx" of a second image dict is as it was
C11_Witness ==
    /\ docRole = "values"
    /\ doc0.parses
    /\ Len(docRuns) >= 1
    /\ \E p, q \in StrPaths(doc0.doc) :
        /\ Len(p) >= 4
        /\ IsImageRepository(doc0.doc, p)
        /\ NodeAt(doc0.doc, p).s = "bitnami/bitnami/x"
        /\ NodeAt(docRuns[1].content.doc, p).s = "helmhubio/bitnami/x"
        /\ IsImageRepository(doc0.doc, q)
        /\ NodeAt(doc0.doc, q).s = "myorg/bitnami/nginx"
        /\ NodeAt(docRuns[1].content.doc, q).s = "myorg/bitnami/nginx"

(***************************************************************************)
(* C12                                                                     *)
(***************************************************************************)

\* every place of s where ref stands is followed by the end of a line: ref
\* is not the beginning of a longer reference
WholeRefs(s, ref) ==
    \A k \in 1..Len(s) : MatchAt(s, ref, k) => MatchAt(s, "\n", k + Len(ref))

\* C12: update_chart_image_tag changes nothing but the tag fields of the
\* image it is called for: a line of values.yaml that differs afterwards is
\* the tag line of an entry of that image with that tag, no line is added or
\* lost, and a Chart.yaml that differs afterwards held references to that
\* very image:tag pair, which alone were replaced.
C12_OnlyOwnTags ==
    [][(/\ matchPc = "tags"
        /\ missing_tags' # missing_tags)
       => \A c \in DOMAIN charts_dir.charts :
            /\ Len(charts_dir'.charts[c].values_yaml.lines)
                  = Len(charts_dir.charts[c].values_yaml.lines)
            /\ \A j \in 1..Len(charts_dir.charts[c].values_yaml.lines) :
                 charts_dir'.charts[c].values_yaml.lines[j]
                       # charts_dir.charts[c].values_yaml.lines[j]
                 => /\ j \in EntryTagLines(charts_dir.charts[c].values_yaml.lines,
                                           missing_images[total_checked].image, missing_tag')
                    /\ Trimmed(charts_dir'.charts[c].values_yaml.lines[j])
                          = "tag: " \o best_match'.tag
            /\ charts_dir'.charts[c].chart_yaml # charts_dir.charts[c].chart_yaml
               => /\ WholeRefs(charts_dir.charts[c].chart_yaml.s,
                               ImageRef(missing_images[total_checked].image, missing_tag'))
                  /\ charts_dir'.charts[c].chart_yaml.s
                       = Replace(charts_dir.charts[c].chart_yaml.s,
                                 ImageRef(missing_images[total_checked].image, missing_tag'),
                                 ImageRef(missing_images[total_checked].image,
                                          best_match'.tag))]_vars

(***************************************************************************)
(* C13                                                                     *)
(***************************************************************************)

\* C13: with apply set, rename_all_paths carries out the collected renames
\* deepest source first, so that each source is still there when its turn
\* comes: every rename succeeds (the source is gone, the destination is
\* there, the run goes on), the count goes up by one for each, and no entry
\* below .git, .venv or .github is renamed.
C13_RenamesSucceed ==
    [][(/\ pc = "renaming"
        /\ args.apply
        /\ renames' # renames)
       => /\ Exists(fs, cur_rename'[1])
          /\ pc' = "renaming"
          /\ ~Exists(fs', cur_rename'[1])
          /\ Exists(fs', cur_rename'[2])
          /\ renamed_count' = renamed_count + 1
          /\ ~HasPartIn(Parent(cur_rename'[1]), {".git", ".venv", ".github"})]_vars

====
